---- MODULE Spec2Model ----
(***************************************************************************)
(* Word counting and cross-validation engine of the wordcount repository:  *)
(* contraction expansion, the three tokenizer strategies, aggregation, the *)
(* comparison report, the selection policy, the confidence classifier and  *)
(* the processing of the three files of a book.                            *)
(*                                                                         *)
(* A text is a sequence of characters, a character a one-character string *)
(* (the two dashes of the strip set are written by name, CJK characters by *)
(* code point, and messages, method labels and file types in English,      *)
(* because module text is Latin-1).                                        *)
(* A token is a sequence of characters, a frequency table a function from  *)
(* the set of distinct tokens to their number of occurrences.              *)
(***************************************************************************)
EXTENDS Integers, Sequences, FiniteSets, TLC

VARIABLES text, parts, results, report, quick, expanded, wordlist, pc,
          uploaded_files, verification_on, individual_results, summary

vars == <<text, parts, results, report, quick, expanded, wordlist, pc,
          uploaded_files, verification_on, individual_results, summary>>

\* the state of process_book_files
bookVars == <<uploaded_files, verification_on, individual_results, summary>>

\* the state of verify_text, analyze_text and test_contraction_handler
textVars == <<text, parts, results, report, quick, expanded, wordlist>>

\* Python's None, and the value of a variable that holds no result yet
None == [none |-> TRUE]

(***************************************************************************)
(* Characters.  Python 3 str semantics: \w, \b and \d of the re module and *)
(* str.isalpha / str.lower / str.split are Unicode aware, [a-zA-Z] is not. *)
(***************************************************************************)
AsciiLower ==
    {"a","b","c","d","e","f","g","h","i","j","k","l","m",
     "n","o","p","q","r","s","t","u","v","w","x","y","z"}

AsciiUpper ==
    {"A","B","C","D","E","F","G","H","I","J","K","L","M",
     "N","O","P","Q","R","S","T","U","V","W","X","Y","Z"}

\* letters outside a-z / A-Z: alphabetic for str.isalpha and \w, not for [a-zA-Z]
OtherLower == {"é"}

OtherUpper == {"É"}

\* CJK characters, written by code point: the ideograph U+4E2D, alphabetic for
\* str.isalpha and a word character for \w, and the full stop U+3002, neither
CjkLetters == {"U+4E2D"}

CjkPunctuation == {"U+3002"}

Digits == {"0","1","2","3","4","5","6","7","8","9"}

\* space and newline
Whitespace == {" ", "\n"}

UpperToLower ==
    [c \in AsciiUpper \cup OtherUpper |->
        CASE c = "A" -> "a" [] c = "B" -> "b" [] c = "C" -> "c" [] c = "D" -> "d"
          [] c = "E" -> "e" [] c = "F" -> "f" [] c = "G" -> "g" [] c = "H" -> "h"
          [] c = "I" -> "i" [] c = "J" -> "j" [] c = "K" -> "k" [] c = "L" -> "l"
          [] c = "M" -> "m" [] c = "N" -> "n" [] c = "O" -> "o" [] c = "P" -> "p"
          [] c = "Q" -> "q" [] c = "R" -> "r" [] c = "S" -> "s" [] c = "T" -> "t"
          [] c = "U" -> "u" [] c = "V" -> "v" [] c = "W" -> "w" [] c = "X" -> "x"
          [] c = "Y" -> "y" [] c = "Z" -> "z" [] c = "É" -> "é"]

\* str.lower() on one character
LowerChar(c) == IF c \in DOMAIN UpperToLower THEN UpperToLower[c] ELSE c

\* str.lower()
Lower(s) == [i \in 1..Len(s) |-> LowerChar(s[i])]

\* the character class [a-zA-Z]
IsAsciiLetter(c) == c \in AsciiLower \cup AsciiUpper

\* str.isalpha() on one character
IsAlpha(c) == c \in AsciiLower \cup AsciiUpper \cup OtherLower \cup OtherUpper \cup CjkLetters

\* the class \d
IsDigit(c) == c \in Digits

\* the class \w: alphanumeric or underscore
IsWordChar(c) == IsAlpha(c) \/ IsDigit(c) \/ c = "_"

\* \b between s[i] and s[i+1], 0 <= i <= Len(s); outside the string counts as non-word
WordAt(s, i) == i >= 1 /\ i <= Len(s) /\ IsWordChar(s[i])

Boundary(s, i) == WordAt(s, i) # WordAt(s, i + 1)

(***************************************************************************)
(* Regular-expression scans.  match(s, i) is the index of the last         *)
(* character of the match that starts at i, or 0 when the pattern does not *)
(* match at i; no pattern of the program matches the empty string.         *)
(***************************************************************************)
\* re.sub: leftmost non-overlapping matches from start on, each replaced by replace(s, i, j)
SubFrom(s, start, match(_, _), replace(_, _, _)) ==
    LET rest[i \in 1..(Len(s) + 1)] ==
            IF i > Len(s) THEN << >>
            ELSE LET j == match(s, i)
                 IN  IF j = 0 THEN <<s[i]>> \o rest[i + 1]
                     ELSE replace(s, i, j) \o rest[j + 1]
    IN  rest[start]

\* re.findall: leftmost non-overlapping matches from start on, in order
FindAllFrom(s, start, match(_, _)) ==
    LET rest[i \in 1..(Len(s) + 1)] ==
            IF i > Len(s) THEN << >>
            ELSE LET j == match(s, i)
                 IN  IF j = 0 THEN rest[i + 1]
                     ELSE <<SubSeq(s, i, j)>> \o rest[j + 1]
    IN  rest[start]

RECURSIVE LetterRunEnd(_, _)
\* end of the maximal run of [a-zA-Z] that starts at i, i - 1 when s[i] is no letter
LetterRunEnd(s, i) ==
    IF i <= Len(s) /\ IsAsciiLetter(s[i]) THEN LetterRunEnd(s, i + 1) ELSE i - 1

(***************************************************************************)
(* Contraction expander (contraction_handler.py).                          *)
(***************************************************************************)
\* the module-level table, in dict (insertion) order
STANDARD_CONTRACTIONS ==
    << [key |-> <<"i","'","m">>, expansion |-> << <<"i">>, <<"a","m">> >>],
       [key |-> <<"y","o","u","'","r","e">>, expansion |-> << <<"y","o","u">>, <<"a","r","e">> >>],
       [key |-> <<"h","e","'","s">>, expansion |-> << <<"h","e">>, <<"i","s">> >>],
       [key |-> <<"s","h","e","'","s">>, expansion |-> << <<"s","h","e">>, <<"i","s">> >>],
       [key |-> <<"i","t","'","s">>, expansion |-> << <<"i","t">>, <<"i","s">> >>],
       [key |-> <<"w","e","'","r","e">>, expansion |-> << <<"w","e">>, <<"a","r","e">> >>],
       [key |-> <<"t","h","e","y","'","r","e">>, expansion |-> << <<"t","h","e","y">>, <<"a","r","e">> >>],
       [key |-> <<"i","'","v","e">>, expansion |-> << <<"i">>, <<"h","a","v","e">> >>],
       [key |-> <<"y","o","u","'","v","e">>, expansion |-> << <<"y","o","u">>, <<"h","a","v","e">> >>],
       [key |-> <<"w","e","'","v","e">>, expansion |-> << <<"w","e">>, <<"h","a","v","e">> >>],
       [key |-> <<"t","h","e","y","'","v","e">>, expansion |-> << <<"t","h","e","y">>, <<"h","a","v","e">> >>],
       [key |-> <<"i","'","l","l">>, expansion |-> << <<"i">>, <<"w","i","l","l">> >>],
       [key |-> <<"y","o","u","'","l","l">>, expansion |-> << <<"y","o","u">>, <<"w","i","l","l">> >>],
       [key |-> <<"h","e","'","l","l">>, expansion |-> << <<"h","e">>, <<"w","i","l","l">> >>],
       [key |-> <<"s","h","e","'","l","l">>, expansion |-> << <<"s","h","e">>, <<"w","i","l","l">> >>],
       [key |-> <<"i","t","'","l","l">>, expansion |-> << <<"i","t">>, <<"w","i","l","l">> >>],
       [key |-> <<"w","e","'","l","l">>, expansion |-> << <<"w","e">>, <<"w","i","l","l">> >>],
       [key |-> <<"t","h","e","y","'","l","l">>, expansion |-> << <<"t","h","e","y">>, <<"w","i","l","l">> >>],
       [key |-> <<"i","'","d">>, expansion |-> << <<"i">>, <<"w","o","u","l","d">> >>],
       [key |-> <<"y","o","u","'","d">>, expansion |-> << <<"y","o","u">>, <<"w","o","u","l","d">> >>],
       [key |-> <<"h","e","'","d">>, expansion |-> << <<"h","e">>, <<"w","o","u","l","d">> >>],
       [key |-> <<"s","h","e","'","d">>, expansion |-> << <<"s","h","e">>, <<"w","o","u","l","d">> >>],
       [key |-> <<"i","t","'","d">>, expansion |-> << <<"i","t">>, <<"w","o","u","l","d">> >>],
       [key |-> <<"w","e","'","d">>, expansion |-> << <<"w","e">>, <<"w","o","u","l","d">> >>],
       [key |-> <<"t","h","e","y","'","d">>, expansion |-> << <<"t","h","e","y">>, <<"w","o","u","l","d">> >>],
       [key |-> <<"w","h","o","'","s">>, expansion |-> << <<"w","h","o">>, <<"i","s">> >>],
       [key |-> <<"w","h","a","t","'","s">>, expansion |-> << <<"w","h","a","t">>, <<"i","s">> >>],
       [key |-> <<"w","h","e","r","e","'","s">>, expansion |-> << <<"w","h","e","r","e">>, <<"i","s">> >>],
       [key |-> <<"w","h","e","n","'","s">>, expansion |-> << <<"w","h","e","n">>, <<"i","s">> >>],
       [key |-> <<"w","h","y","'","s">>, expansion |-> << <<"w","h","y">>, <<"i","s">> >>],
       [key |-> <<"h","o","w","'","s">>, expansion |-> << <<"h","o","w">>, <<"i","s">> >>],
       [key |-> <<"t","h","e","r","e","'","s">>, expansion |-> << <<"t","h","e","r","e">>, <<"i","s">> >>],
       [key |-> <<"t","h","a","t","'","s">>, expansion |-> << <<"t","h","a","t">>, <<"i","s">> >>],
       [key |-> <<"h","e","r","e","'","s">>, expansion |-> << <<"h","e","r","e">>, <<"i","s">> >>],
       [key |-> <<"d","o","n","'","t">>, expansion |-> << <<"d","o">>, <<"n","o","t">> >>],
       [key |-> <<"d","o","e","s","n","'","t">>, expansion |-> << <<"d","o","e","s">>, <<"n","o","t">> >>],
       [key |-> <<"d","i","d","n","'","t">>, expansion |-> << <<"d","i","d">>, <<"n","o","t">> >>],
       [key |-> <<"c","a","n","'","t">>, expansion |-> << <<"c","a","n">>, <<"n","o","t">> >>],
       [key |-> <<"c","a","n","n","o","t">>, expansion |-> << <<"c","a","n">>, <<"n","o","t">> >>],
       [key |-> <<"c","o","u","l","d","n","'","t">>, expansion |-> << <<"c","o","u","l","d">>, <<"n","o","t">> >>],
       [key |-> <<"w","o","n","'","t">>, expansion |-> << <<"w","i","l","l">>, <<"n","o","t">> >>],
       [key |-> <<"w","o","u","l","d","n","'","t">>, expansion |-> << <<"w","o","u","l","d">>, <<"n","o","t">> >>],
       [key |-> <<"s","h","o","u","l","d","n","'","t">>, expansion |-> << <<"s","h","o","u","l","d">>, <<"n","o","t">> >>],
       [key |-> <<"m","u","s","t","n","'","t">>, expansion |-> << <<"m","u","s","t">>, <<"n","o","t">> >>],
       [key |-> <<"i","s","n","'","t">>, expansion |-> << <<"i","s">>, <<"n","o","t">> >>],
       [key |-> <<"a","r","e","n","'","t">>, expansion |-> << <<"a","r","e">>, <<"n","o","t">> >>],
       [key |-> <<"w","a","s","n","'","t">>, expansion |-> << <<"w","a","s">>, <<"n","o","t">> >>],
       [key |-> <<"w","e","r","e","n","'","t">>, expansion |-> << <<"w","e","r","e">>, <<"n","o","t">> >>],
       [key |-> <<"h","a","s","n","'","t">>, expansion |-> << <<"h","a","s">>, <<"n","o","t">> >>],
       [key |-> <<"h","a","v","e","n","'","t">>, expansion |-> << <<"h","a","v","e">>, <<"n","o","t">> >>],
       [key |-> <<"h","a","d","n","'","t">>, expansion |-> << <<"h","a","d">>, <<"n","o","t">> >>],
       [key |-> <<"n","e","e","d","n","'","t">>, expansion |-> << <<"n","e","e","d">>, <<"n","o","t">> >>],
       [key |-> <<"d","a","r","e","n","'","t">>, expansion |-> << <<"d","a","r","e">>, <<"n","o","t">> >>],
       [key |-> <<"s","h","a","n","'","t">>, expansion |-> << <<"s","h","a","l","l">>, <<"n","o","t">> >>],
       [key |-> <<"l","e","t","'","s">>, expansion |-> << <<"l","e","t">>, <<"u","s">> >>],
       [key |-> <<"m","a","'","a","m">>, expansion |-> << <<"m","a","d","a","m">> >>],
       [key |-> <<"o","'","c","l","o","c","k">>, expansion |-> << <<"o","f">>, <<"t","h","e">>, <<"c","l","o","c","k">> >>] >>

Max(S) == CHOOSE x \in S : \A y \in S : y <= x

Min(S) == CHOOSE x \in S : \A y \in S : x <= y

Range(f) == {f[i] : i \in DOMAIN f}

RECURSIVE Join(_)
\* ' '.join(words)
Join(words) ==
    IF words = << >> THEN << >>
    ELSE IF Len(words) = 1 THEN words[1]
    ELSE words[1] \o <<" ">> \o Join(Tail(words))

\* the key matched anywhere, without the two \b of the pattern
MatchContraction_Substring(key, s, i) ==
    IF /\ LowerChar(s[i]) = key[1]
       /\ i + Len(key) - 1 <= Len(s)
       /\ \A k \in 2..Len(key) : LowerChar(s[i + k - 1]) = key[k]
    THEN i + Len(key) - 1 ELSE 0

\* pattern \b + re.escape(contraction) + \b under re.IGNORECASE, tried at i
MatchContraction(key, s, i) ==
    IF /\ LowerChar(s[i]) = key[1]
       /\ i + Len(key) - 1 <= Len(s)
       /\ \A k \in 2..Len(key) : LowerChar(s[i + k - 1]) = key[k]
       /\ Boundary(s, i - 1)
       /\ Boundary(s, i + Len(key) - 1)
    THEN i + Len(key) - 1 ELSE 0

\* one iteration of the loop of step 1: re.sub(pattern, replacement, text, flags=re.IGNORECASE)
ExpandOne(entry, s) ==
    LET m(t, i) == MatchContraction(entry.key, t, i)
        repl(t, i, j) == Join(entry.expansion)
    IN  IF \A i \in 1..Len(s) : m(s, i) = 0 THEN s ELSE SubFrom(s, 1, m, repl)

RECURSIVE ExpandEntries(_, _, _)
\* the iterations lo..hi of the loop of step 1, in order: the first half of
\* them, then the second half on the text the first half leaves (the
\* singleton set fixes that text as a value before the second half reads it)
ExpandEntries(s, lo, hi) ==
    IF lo > hi THEN s
    ELSE IF lo = hi THEN ExpandOne(STANDARD_CONTRACTIONS[lo], s)
    ELSE LET mid == (lo + hi) \div 2
         IN  CHOOSE r \in {ExpandEntries(t, mid + 1, hi) : t \in {ExpandEntries(s, lo, mid)}} : TRUE

\* step 1: the loop over STANDARD_CONTRACTIONS.items(), from entry n on
ExpandTable(s, n) == ExpandEntries(s, n, Len(STANDARD_CONTRACTIONS))

\* pattern \b([a-zA-Z]+)'s\b tried at i: the greedy group gives back letters until the rest matches
MatchPossessive(s, i) ==
    LET ends == {e \in i..LetterRunEnd(s, i) :
                    /\ e + 2 <= Len(s)
                    /\ s[e + 1] = "'"
                    /\ s[e + 2] = "s"
                    /\ Boundary(s, e + 2)}
    IN  IF Boundary(s, i - 1) /\ ends # {} THEN Max(ends) + 2 ELSE 0

\* StripPossessive that removes the apostrophe only
StripPossessive_KeepS(s) ==
    LET repl(t, i, j) == SubSeq(t, i, j - 2) \o <<"s">>
    IN  SubFrom(s, 1, MatchPossessive, repl)

\* step 2: re.sub(r"\b([a-zA-Z]+)'s\b", r'\1', text)
StripPossessive(s) ==
    LET repl(t, i, j) == SubSeq(t, i, j - 2)
    IN  SubFrom(s, 1, MatchPossessive, repl)

\* expand_contractions with its two steps in the other order
expand_contractions_PossessiveFirst(s) == ExpandTable(StripPossessive(s), 1)

expand_contractions(s) == StripPossessive(ExpandTable(s, 1))

\* pattern \b[a-zA-Z]+\b tried at i
MatchWord(s, i) ==
    LET ends == {e \in i..LetterRunEnd(s, i) : Boundary(s, e)}
    IN  IF Boundary(s, i - 1) /\ ends # {} THEN Max(ends) ELSE 0

\* [word.lower() for word in words]
LowerAll(words) == [i \in 1..Len(words) |-> Lower(words[i])]

\* extract_words_with_smart_contractions without the lowercasing
extract_words_with_smart_contractions_KeepCase(s) ==
    FindAllFrom(expand_contractions(s), 1, MatchWord)

extract_words_with_smart_contractions(s) ==
    LowerAll(FindAllFrom(expand_contractions(s), 1, MatchWord))

(***************************************************************************)
(* Aggregation and the three strategies (verify.py).                       *)
(***************************************************************************)
\* Counter that records which words occur, not how often
Counter_Presence(words) == [w \in Range(words) |-> 1]

\* dict(Counter(words))
Counter(words) ==
    [w \in Range(words) |-> Cardinality({i \in DOMAIN words : words[i] = w})]

\* the record every count_words_method returns (the singleton set fixes the
\* word list as a value before the fields read it)
MethodResult(label, word_list) ==
    LET result(words) ==
            [method       |-> label,
             total_words  |-> Len(words),
             unique_words |-> Cardinality(DOMAIN Counter(words)),
             word_list    |-> words,
             word_freq    |-> Counter(words)]
    IN  CHOOSE r \in {result(words) : words \in {word_list}} : TRUE

count_words_method1(s) ==
    MethodResult("method1", extract_words_with_smart_contractions(s))

RECURSIVE ChunkEnd(_, _)
\* end of the run of non-whitespace characters that starts at i
ChunkEnd(s, i) ==
    IF i <= Len(s) /\ s[i] \notin Whitespace THEN ChunkEnd(s, i + 1) ELSE i - 1

\* text.split(): the maximal runs of non-whitespace characters
Split(s) ==
    LET m(t, i) == IF ChunkEnd(t, i) >= i THEN ChunkEnd(t, i) ELSE 0
    IN  FindAllFrom(s, 1, m)

\* the characters of the argument of token.strip(...)
StripChars ==
    {".", ",", "!", "?", ";", ":", "\"", "(", ")", "[", "]", "{", "}",
     "-", "en dash", "em dash", "'"} \cup Digits

\* token.strip(chars)
Strip(tok) ==
    LET keep == {i \in 1..Len(tok) : tok[i] \notin StripChars}
    IN  IF keep = {} THEN << >> ELSE SubSeq(tok, Min(keep), Max(keep))

RECURSIVE AlphaOnly(_)
\* ''.join(c for c in cleaned if c.isalpha())
AlphaOnly(tok) ==
    IF tok = << >> THEN << >>
    ELSE (IF IsAlpha(Head(tok)) THEN <<Head(tok)>> ELSE << >>) \o AlphaOnly(Tail(tok))

RECURSIVE Method2Words_NoLetterTest(_)
\* Method2Words that keeps every token left non-empty by the strip, letters or not
Method2Words_NoLetterTest(tokens) ==
    IF tokens = << >> THEN << >>
    ELSE LET cleaned == Strip(Head(tokens))
         IN  (IF cleaned # << >> THEN <<Lower(cleaned)>> ELSE << >>)
             \o Method2Words_NoLetterTest(Tail(tokens))

RECURSIVE Method2Words(_)
\* the loop over tokens of count_words_method2
Method2Words(tokens) ==
    IF tokens = << >> THEN << >>
    ELSE LET cleaned == Strip(Head(tokens))
             alpha_only == AlphaOnly(cleaned)
         IN  (IF /\ cleaned # << >>
                 /\ \E i \in 1..Len(cleaned) : IsAlpha(cleaned[i])
                 /\ alpha_only # << >>
              THEN <<Lower(alpha_only)>> ELSE << >>)
             \o Method2Words(Tail(tokens))

\* count_words_method2 run on the expanded text
count_words_method2_Expanding(s) ==
    MethodResult("method2", Method2Words(Split(expand_contractions(s))))

count_words_method2(s) == MethodResult("method2", Method2Words(Split(s)))

RECURSIVE DigitRunEnd(_, _)
DigitRunEnd(s, i) ==
    IF i <= Len(s) /\ IsDigit(s[i]) THEN DigitRunEnd(s, i + 1) ELSE i - 1

\* re.sub(r'\d+', ' ', text): a space where the digits were
RemoveNumbers_Space(s) ==
    LET m(t, i) == IF DigitRunEnd(t, i) >= i THEN DigitRunEnd(t, i) ELSE 0
        repl(t, i, j) == <<" ">>
    IN  SubFrom(s, 1, m, repl)

\* re.sub(r'\d+', '', text)
RemoveNumbers(s) ==
    LET m(t, i) == IF DigitRunEnd(t, i) >= i THEN DigitRunEnd(t, i) ELSE 0
        repl(t, i, j) == << >>
    IN  SubFrom(s, 1, m, repl)

\* pattern [a-zA-Z]+ tried at i
MatchLetters(s, i) == IF LetterRunEnd(s, i) >= i THEN LetterRunEnd(s, i) ELSE 0

count_words_method3(s) ==
    MethodResult("method3", LowerAll(FindAllFrom(RemoveNumbers(s), 1, MatchLetters)))

(***************************************************************************)
(* Comparison report, confidence classifier and selection (verify.py).     *)
(***************************************************************************)
\* [r[field] for r in results]
Column(rs, field) == {rs[i][field] : i \in DOMAIN rs}

\* one metric of the report: consistency, per-method values, min, max, difference
Metric(rs, field) ==
    [consistent |-> Cardinality(Column(rs, field)) = 1,
     values     |-> [m \in Column(rs, "method") |->
                        rs[Max({i \in DOMAIN rs : rs[i].method = m})][field]],
     min        |-> Min(Column(rs, field)),
     max        |-> Max(Column(rs, field)),
     difference |-> Max(Column(rs, field)) - Min(Column(rs, field))]

\* compare_results that calls the results consistent as soon as the totals agree
compare_results_TotalsOnly(rs) ==
    LET total_consistent  == Cardinality(Column(rs, "total_words")) = 1
    IN  [status       |-> IF total_consistent THEN "pass" ELSE "warning",
         consistent   |-> total_consistent,
         total_words  |-> Metric(rs, "total_words"),
         unique_words |-> Metric(rs, "unique_words")]

compare_results(rs) ==
    IF Len(rs) < 2
    THEN [status |-> "error", message |-> "at least 2 methods are needed"]
    ELSE LET total_consistent  == Cardinality(Column(rs, "total_words")) = 1
             unique_consistent == Cardinality(Column(rs, "unique_words")) = 1
         IN  [status       |-> IF total_consistent /\ unique_consistent
                               THEN "pass" ELSE "warning",
              consistent   |-> total_consistent /\ unique_consistent,
              total_words  |-> Metric(rs, "total_words"),
              unique_words |-> Metric(rs, "unique_words")]

RecConsistent == "pass: fully consistent"

RecMinor == "pass: minor difference (<=2)"

RecSmall == "pass: small difference (<=10)"

RecNormal == "pass: difference (<=50), normal"

RecWarn == "warn: large difference (>50)"

MinorDiff == 2

SmallTotalDiff == 10

SmallUniqueDiff == 5

NormalTotalDiff == 50

\* get_recommendation with < 50 in place of <= 50 in its last test
get_recommendation_Below(comparison) ==
    IF comparison.status = "pass" THEN RecConsistent
    ELSE LET total_diff  == comparison.total_words.difference
             unique_diff == comparison.unique_words.difference
         IN  IF total_diff <= MinorDiff /\ unique_diff <= MinorDiff THEN RecMinor
             ELSE IF total_diff <= SmallTotalDiff /\ unique_diff <= SmallUniqueDiff THEN RecSmall
             ELSE IF total_diff < NormalTotalDiff THEN RecNormal
             ELSE RecWarn

get_recommendation(comparison) ==
    IF comparison.status = "pass" THEN RecConsistent
    ELSE LET total_diff  == comparison.total_words.difference
             unique_diff == comparison.unique_words.difference
         IN  IF total_diff <= MinorDiff /\ unique_diff <= MinorDiff THEN RecMinor
             ELSE IF total_diff <= SmallTotalDiff /\ unique_diff <= SmallUniqueDiff THEN RecSmall
             ELSE IF total_diff <= NormalTotalDiff THEN RecNormal
             ELSE RecWarn

SummaryPass == "verification passed"

SummaryCheck == "needs checking"

\* get_verification_summary that asks for a check from the third branch on
get_verification_summary_Strict(comparison) ==
    IF comparison.consistent THEN SummaryPass
    ELSE LET total_diff  == comparison.total_words.difference
             unique_diff == comparison.unique_words.difference
         IN  IF total_diff <= MinorDiff /\ unique_diff <= MinorDiff THEN SummaryPass
             ELSE IF total_diff <= SmallTotalDiff /\ unique_diff <= SmallUniqueDiff THEN SummaryPass
             ELSE SummaryCheck

get_verification_summary(comparison) ==
    IF comparison.consistent THEN SummaryPass
    ELSE LET total_diff  == comparison.total_words.difference
             unique_diff == comparison.unique_words.difference
         IN  IF total_diff <= MinorDiff /\ unique_diff <= MinorDiff THEN SummaryPass
             ELSE IF total_diff <= SmallTotalDiff /\ unique_diff <= SmallUniqueDiff THEN SummaryPass
             ELSE IF total_diff <= NormalTotalDiff THEN SummaryPass
             ELSE SummaryCheck

\* code points of the characters a frequency-table key can hold
CodePoint(c) ==
    CASE c = "a" -> 97  [] c = "b" -> 98  [] c = "c" -> 99  [] c = "d" -> 100
      [] c = "e" -> 101 [] c = "f" -> 102 [] c = "g" -> 103 [] c = "h" -> 104
      [] c = "i" -> 105 [] c = "j" -> 106 [] c = "k" -> 107 [] c = "l" -> 108
      [] c = "m" -> 109 [] c = "n" -> 110 [] c = "o" -> 111 [] c = "p" -> 112
      [] c = "q" -> 113 [] c = "r" -> 114 [] c = "s" -> 115 [] c = "t" -> 116
      [] c = "u" -> 117 [] c = "v" -> 118 [] c = "w" -> 119 [] c = "x" -> 120
      [] c = "y" -> 121 [] c = "z" -> 122 [] c = "é" -> 233
      [] c = "U+4E2D" -> 20013

RECURSIVE StrLess(_, _)
\* a < b on Python strings: code-point lexicographic order
StrLess(a, b) ==
    IF b = << >> THEN FALSE
    ELSE IF a = << >> THEN TRUE
    ELSE IF Head(a) # Head(b) THEN CodePoint(Head(a)) < CodePoint(Head(b))
    ELSE StrLess(Tail(a), Tail(b))

RECURSIVE Sorted_Reverse(_)
\* sorted(keys, reverse=True)
Sorted_Reverse(S) ==
    IF S = {} THEN << >>
    ELSE LET greatest == CHOOSE a \in S : \A b \in S \ {a} : StrLess(b, a)
         IN  <<greatest>> \o Sorted_Reverse(S \ {greatest})

RECURSIVE Sorted(_)
\* sorted(keys)
Sorted(S) ==
    IF S = {} THEN << >>
    ELSE LET least == CHOOSE a \in S : \A b \in S \ {a} : StrLess(a, b)
         IN  <<least>> \o Sorted(S \ {least})

\* RatioAboveTenth with >= 0.1 in place of > 0.1
RatioAboveTenth_AtLeast(max_total, method1_total) ==
    10 * (max_total - method1_total) >= max_total

\* the comparison (max_total - method1_total) / max_total > 0.1 of verify_text.
\* The quotient is a correctly rounded double, so it exceeds the double 0.1
\* exactly when the rational quotient exceeds 1/10 for the totals a text can reach.
RatioAboveTenth(max_total, method1_total) ==
    10 * (max_total - method1_total) > max_total

\* the operand of `and` that guards the division
DivisorPositive(max_total) == max_total > 0

\* min(results, key=...): the first result with the smallest total
MaxByTotal_Least(rs) ==
    rs[Min({i \in DOMAIN rs :
              rs[i].total_words = Min(Column(rs, "total_words"))})]

\* MaxByTotal taking the last result with the largest total instead of the first
MaxByTotal_Last(rs) ==
    rs[Max({i \in DOMAIN rs :
              rs[i].total_words = Max(Column(rs, "total_words"))})]

\* max(results, key=lambda r: r['total_words']): the first result with the largest total
MaxByTotal(rs) ==
    rs[Min({i \in DOMAIN rs :
              rs[i].total_words = Max(Column(rs, "total_words"))})]

\* what verify_text ends with when the division is evaluated with max_total = 0
ZeroDivisionError == [error |-> "ZeroDivisionError"]

\* verify_text from the list of results on (lines 146-182)
VerifyResults(rs) ==
    LET comparison     == compare_results(rs)
        recommendation == get_recommendation(comparison)
        max_total      == Max(Column(rs, "total_words"))
        method1_total  == rs[1].total_words
        divides        == ~comparison.consistent /\ DivisorPositive(max_total)
        best_result    == IF divides /\ RatioAboveTenth(max_total, method1_total)
                          THEN MaxByTotal(rs) ELSE rs[1]
        final_stats    == [total_words      |-> best_result.total_words,
                           unique_words     |-> best_result.unique_words,
                           word_freq        |-> best_result.word_freq,
                           unique_word_list |-> Sorted(DOMAIN best_result.word_freq),
                           selected_method  |-> best_result.method]
    IN  IF divides /\ max_total = 0 THEN ZeroDivisionError
        ELSE [results        |-> rs,
              comparison     |-> comparison,
              recommendation |-> recommendation,
              final_stats    |-> final_stats,
              verified       |-> comparison.consistent]

verify_text(s) ==
    VerifyResults(<<count_words_method1(s), count_words_method2(s), count_words_method3(s)>>)

(***************************************************************************)
(* analyze_text (word_analyzer.py).                                        *)
(***************************************************************************)
\* analyze_text whose quick mode does not lowercase the words
analyze_text_KeepCase(s, enable_verification) ==
    LET words == FindAllFrom(s, 1, MatchWord)
        word_freq == Counter(words)
    IN  [total_words         |-> Len(words),
         unique_words        |-> Cardinality(DOMAIN word_freq),
         unique_word_list    |-> << >>,
         word_freq           |-> word_freq,
         verified            |-> None,
         verification_status |-> "not verified (quick mode)",
         verification_detail |-> "verification not enabled"]

analyze_text(s, enable_verification) ==
    IF enable_verification
    THEN LET verification_report == verify_text(s)
             stats == verification_report.final_stats
         IN  [total_words             |-> stats.total_words,
              unique_words            |-> stats.unique_words,
              word_freq               |-> stats.word_freq,
              unique_word_list        |-> stats.unique_word_list,
              selected_method         |-> stats.selected_method,
              verified                |-> verification_report.verified,
              verification_status     |-> get_verification_summary(verification_report.comparison),
              verification_detail     |-> verification_report.recommendation,
              verification_comparison |-> verification_report.comparison]
    ELSE LET words_lower == LowerAll(FindAllFrom(s, 1, MatchWord))
             word_freq   == Counter(words_lower)
         IN  [total_words         |-> Len(words_lower),
              unique_words        |-> Cardinality(DOMAIN word_freq),
              unique_word_list    |-> Sorted(DOMAIN word_freq),
              word_freq           |-> word_freq,
              verified            |-> None,
              verification_status |-> "not verified (quick mode)",
              verification_detail |-> "verification not enabled"]

(***************************************************************************)
(* Book files (utils/book_processor.py).                                   *)
(***************************************************************************)
\* the three file types: bilingual text, original text, tutor dialogue
TypeBilingual == "1-bilingual"

TypeOriginal == "2-original"

TypeDialogue == "3-dialogue"

\* the order in which process_book_files goes through the file types
FileTypes == <<TypeBilingual, TypeOriginal, TypeDialogue>>

\* the character class [\u4e00-\u9fff\u3000-\u303f\uff00-\uffef]
IsCjk(c) == c \in CjkLetters \cup CjkPunctuation

RECURSIVE CjkRunEnd(_, _)
CjkRunEnd(s, i) ==
    IF i <= Len(s) /\ IsCjk(s[i]) THEN CjkRunEnd(s, i + 1) ELSE i - 1

\* re.sub(r'[\u4e00-\u9fff\u3000-\u303f\uff00-\uffef]+', ' ', text)
RemoveCjk(s) ==
    LET m(t, i) == IF CjkRunEnd(t, i) >= i THEN CjkRunEnd(t, i) ELSE 0
        repl(t, i, j) == <<" ">>
    IN  SubFrom(s, 1, m, repl)

\* pattern \*\*[A-Za-z]+: tried at i
MatchSpeaker(s, i) ==
    LET e == LetterRunEnd(s, i + 2)
    IN  IF /\ i + 3 <= Len(s)
           /\ s[i] = "*" /\ s[i + 1] = "*"
           /\ e >= i + 2
           /\ e + 1 <= Len(s) /\ s[e + 1] = ":"
        THEN e + 1 ELSE 0

\* re.sub(r'\*\*[A-Za-z]+:', '', text)
RemoveSpeakers(s) ==
    LET repl(t, i, j) == << >>
    IN  SubFrom(s, 1, MatchSpeaker, repl)

\* pattern \*\* tried at i
MatchBold(s, i) ==
    IF i + 1 <= Len(s) /\ s[i] = "*" /\ s[i + 1] = "*" THEN i + 1 ELSE 0

\* re.sub(r'\*\*', '', text)
RemoveBold(s) ==
    LET repl(t, i, j) == << >>
    IN  SubFrom(s, 1, MatchBold, repl)

RECURSIVE SpaceRunEnd(_, _)
SpaceRunEnd(s, i) ==
    IF i <= Len(s) /\ s[i] \in Whitespace THEN SpaceRunEnd(s, i + 1) ELSE i - 1

\* re.sub(r'\s+', ' ', text)
CollapseSpaces(s) ==
    LET m(t, i) == IF SpaceRunEnd(t, i) >= i THEN SpaceRunEnd(t, i) ELSE 0
        repl(t, i, j) == <<" ">>
    IN  SubFrom(s, 1, m, repl)

\* str.strip()
StripSpaces(s) ==
    LET keep == {i \in 1..Len(s) : s[i] \notin Whitespace}
    IN  IF keep = {} THEN << >> ELSE SubSeq(s, Min(keep), Max(keep))

\* preprocess_text that removes the bold delimiters before the speaker markers
preprocess_text_BoldFirst(s, file_type) ==
    LET t == IF file_type = TypeBilingual THEN RemoveCjk(s)
             ELSE IF file_type = TypeOriginal THEN s
             ELSE IF file_type = TypeDialogue THEN RemoveCjk(RemoveSpeakers(RemoveBold(s)))
             ELSE s
    IN  StripSpaces(CollapseSpaces(t))

preprocess_text(s, file_type) ==
    LET t == IF file_type = TypeBilingual THEN RemoveCjk(s)
             ELSE IF file_type = TypeOriginal THEN s
             ELSE IF file_type = TypeDialogue THEN RemoveCjk(RemoveBold(RemoveSpeakers(s)))
             ELSE s
    IN  StripSpaces(CollapseSpaces(t))

\* the factor applied to the total of the original text, which is listened to three times
Multiplier == 3

\* the length of cleaned_text_preview
PreviewLength == 300

\* the file information analyze_book_file adds to the statistics
FileInfo(cleaned_text, file_type, filename) ==
    [file_type            |-> file_type,
     filename             |-> filename,
     cleaned_text         |-> cleaned_text,
     cleaned_text_preview |-> IF Len(cleaned_text) > PreviewLength
                              THEN SubSeq(cleaned_text, 1, PreviewLength) \o <<".", ".", ".">>
                              ELSE cleaned_text]

\* analyze_book_file that multiplies the total of every file type
analyze_book_file_EveryType(s, file_type, filename, enable_verification) ==
    LET cleaned_text == preprocess_text(s, file_type)
        stats == analyze_text(cleaned_text, enable_verification)
    IN  FileInfo(cleaned_text, file_type, filename)
        @@ [original_total_words |-> stats.total_words, multiplier |-> Multiplier]
        @@ [stats EXCEPT !.total_words = stats.total_words * Multiplier]

analyze_book_file(s, file_type, filename, enable_verification) ==
    LET cleaned_text == preprocess_text(s, file_type)
        stats == analyze_text(cleaned_text, enable_verification)
        counted == IF file_type = TypeOriginal
                   THEN [original_total_words |-> stats.total_words, multiplier |-> Multiplier]
                        @@ [stats EXCEPT !.total_words = stats.total_words * Multiplier]
                   ELSE stats
    IN  FileInfo(cleaned_text, file_type, filename) @@ counted

\* is_verified of generate_summary: the status holds the check mark or the
\* words "verification passed"; of the three statuses analyze_text can give
\* only the passed one does
is_verified(result) ==
    LET status == IF "verification_status" \in DOMAIN result
                  THEN result.verification_status ELSE ""
    IN  status = SummaryPass

generate_summary(individual) ==
    [total_files             |-> Cardinality(DOMAIN individual),
     all_verified            |-> \A k \in DOMAIN individual : is_verified(individual[k]),
     total_words_comparison  |-> [k \in DOMAIN individual |-> individual[k].total_words],
     unique_words_comparison |-> [k \in DOMAIN individual |-> individual[k].unique_words]]

(***************************************************************************)
(* Input texts.                                                            *)
(***************************************************************************)
\* largest number of pieces of a free text
MaxPieces == 3

\* the pieces free texts are concatenated from
Pieces ==
    {<<"a">>, <<"B">>, <<"s">>, <<"é">>, <<"1">>, <<"'">>, <<" ">>, <<".">>, <<"_">>,
     <<"i","t","'","s">>}

RECURSIVE FreeTexts(_)
FreeTexts(n) ==
    IF n = 0 THEN {<< >>}
    ELSE LET shorter == FreeTexts(n - 1)
         IN  shorter \cup {t \o p : t \in shorter, p \in Pieces}

\* str.upper() on one character
UpperChar(c) ==
    IF \E u \in DOMAIN UpperToLower : UpperToLower[u] = c
    THEN CHOOSE u \in DOMAIN UpperToLower : UpperToLower[u] = c
    ELSE c

Upper(s) == [i \in 1..Len(s) |-> UpperChar(s[i])]

Capitalize(s) == [i \in 1..Len(s) |-> IF i = 1 THEN UpperChar(s[i]) ELSE s[i]]

\* what stands before and after a framed word: nothing, or text that touches it with a non-word character
Before == {<< >>, <<" ">>, <<"a"," ">>, <<"(">>}

After == {<< >>, <<" ">>, <<" ","a">>, <<"!">>}

\* a word character that touches a table key: a letter, a digit, an underscore
Glue == {<<"a">>, <<"1">>, <<"_">>}

\* a table key in lower case, capitalized and in upper case
KeyForms(n) ==
    LET k == STANDARD_CONTRACTIONS[n].key IN {k, Capitalize(k), Upper(k)}

\* letter-only words that are put before 's
BaseWords ==
    {<<"a">>, <<"s">>, <<"B","a">>, <<"U","n","c","l","e">>, <<"S","a","l","l","y">>,
     <<"i","t">>, <<"H","e">>, <<"L","E","T">>, <<"c","a","n">>,
     <<"c","a","n","n","o","t">>, <<"C","a","n","n","o","t">>}

\* the test cases of test_contraction_handler and the two scenarios of the specification
TestCases ==
    {<<"I","'","m"," ","h","a","p","p","y">>,
     <<"Y","o","u","'","r","e"," ","r","i","g","h","t">>,
     <<"I","t","'","s"," ","a"," ","c","a","t">>,
     <<"U","n","c","l","e","'","s"," ","s","t","o","r","y">>,
     <<"S","a","l","l","y","'","s"," ","c","o","a","t">>,
     <<"D","o","n","'","t"," ","w","o","r","r","y">>,
     <<"C","a","n","'","t"," ","w","a","i","t">>,
     <<"I","'","l","l"," ","g","o">>,
     <<"T","h","e","y","'","v","e"," ","a","r","r","i","v","e","d">>,
     <<"W","h","o","'","s"," ","t","h","e","r","e","?">>,
     <<"W","h","a","t","'","s"," ","t","h","a","t","?">>,
     <<"L","e","t","'","s"," ","g","o","!">>,
     <<"T","h","e","r","e","'","s"," ","a"," ","b","o","o","k">>,
     <<"D","o","n","'","t"," ","w","o","r","r","y",","," ","S","a","l","l","y","'","s"," ",
       "c","o","a","t"," ","i","s"," ","h","e","r","e",".">>,
     <<"I","'","l","l"," ","g","o","."," ","L","e","t","'","s"," ","g","o","!"," ",
       "T","h","e","r","e","'","s"," ","a"," ","b","o","o","k",".">>}

\* the inputs, each with the way it was put together
Inputs ==
    {[kind |-> "free", pre |-> << >>, core |-> t, post |-> << >>, entry |-> 0] :
        t \in FreeTexts(MaxPieces) \cup TestCases}
    \cup
    UNION {{[kind |-> "key", pre |-> b, core |-> k, post |-> a, entry |-> n] :
              b \in Before, k \in KeyForms(n), a \in After} :
           n \in 1..Len(STANDARD_CONTRACTIONS)}
    \cup
    {[kind |-> "possessive", pre |-> b, core |-> w \o <<"'","s">>, post |-> a, entry |-> 0] :
        b \in Before, w \in BaseWords, a \in After}
    \cup
    UNION {{[kind |-> "glued", pre |-> g, core |-> k, post |-> << >>, entry |-> n] :
              g \in Glue, k \in KeyForms(n)}
           \cup
           {[kind |-> "glued", pre |-> << >>, core |-> k, post |-> g, entry |-> n] :
              g \in Glue, k \in KeyForms(n)} :
           n \in 1..Len(STANDARD_CONTRACTIONS)}

(***************************************************************************)
(* The entry points on one input text.                                     *)
(***************************************************************************)
Init ==
    /\ parts \in Inputs
    /\ text = parts.pre \o parts.core \o parts.post
    /\ results = None
    /\ report = None
    /\ quick = None
    /\ expanded = None
    /\ wordlist = None
    /\ uploaded_files = None
    /\ verification_on = None
    /\ individual_results = None
    /\ summary = None
    /\ pc = "start"

\* verify_text(text)
VerifyText ==
    /\ pc = "start"
    /\ report' = verify_text(text)
    /\ results' = IF report' = ZeroDivisionError THEN None ELSE report'.results
    /\ pc' = "verified"
    /\ UNCHANGED <<text, parts, quick, expanded, wordlist, bookVars>>

\* analyze_text(text, enable_verification=False), on a fresh text or on one already verified
QuickCount ==
    /\ pc \in {"start", "verified"}
    /\ quick' = analyze_text(text, FALSE)
    /\ pc' = "counted"
    /\ UNCHANGED <<text, parts, results, report, expanded, wordlist, bookVars>>

\* one iteration of the loop of test_contraction_handler
TestContractionHandler ==
    /\ pc = "start"
    /\ expanded' = expand_contractions(text)
    /\ wordlist' = extract_words_with_smart_contractions(text)
    /\ pc' = "expanded"
    /\ UNCHANGED <<text, parts, results, report, quick, bookVars>>

Next == VerifyText \/ QuickCount \/ TestContractionHandler

Spec == Init /\ [][Next]_vars

(***************************************************************************)
(* The comparison, selection and classification of verify_text on method   *)
(* results given by their totals and unique counts.                        *)
(***************************************************************************)
\* how far the totals reach on both sides of each threshold of the classifier
Margin == 1

\* totals around 0 and around the thresholds on the total difference
TotalValues ==
    {t \in 0..(NormalTotalDiff + Margin) :
        \E c \in {0, MinorDiff, SmallTotalDiff, NormalTotalDiff} :
            t >= c - Margin /\ t <= c + Margin}

\* unique counts whose differences fall on both sides of the thresholds on the unique difference
UniqueValues ==
    {1} \cup {1 + c + d : c \in {MinorDiff, SmallUniqueDiff}, d \in {0, 1}}

\* the result of a method on a text of t words, u of them distinct, written
\* with one letter: the first word t - u + 1 times, u - 1 longer words once each
ResultOf(label, letter, t, u) ==
    LET word(k) == [j \in 1..k |-> letter]
    IN  [method       |-> label,
         total_words  |-> t,
         unique_words |-> u,
         word_list    |-> [i \in 1..t |-> IF i <= t - u + 1 THEN word(1) ELSE word(i - (t - u))],
         word_freq    |-> [w \in {word(k) : k \in 1..u} |->
                              IF w = word(1) THEN t - u + 1 ELSE 1]]

\* (total, unique) pairs a method can return
Counts ==
    {<<0, 0>>} \cup {c \in (TotalValues \ {0}) \X UniqueValues : c[2] <= c[1]}

InitPolicy ==
    /\ \E c1 \in Counts, c2 \in Counts, c3 \in Counts :
          results = <<ResultOf("method1", "a", c1[1], c1[2]),
                      ResultOf("method2", "b", c2[1], c2[2]),
                      ResultOf("method3", "c", c3[1], c3[2])>>
    /\ text = None
    /\ parts = None
    /\ report = None
    /\ quick = None
    /\ expanded = None
    /\ wordlist = None
    /\ uploaded_files = None
    /\ verification_on = None
    /\ individual_results = None
    /\ summary = None
    /\ pc = "counted3"

\* verify_text after the three methods have run
CompareAndSelect ==
    /\ pc = "counted3"
    /\ report' = VerifyResults(results)
    /\ pc' = "verified"
    /\ UNCHANGED <<text, parts, results, quick, expanded, wordlist, bookVars>>

NextPolicy == CompareAndSelect

SpecPolicy == InitPolicy /\ [][NextPolicy]_vars

(***************************************************************************)
(* process_book_files on the three files of one book.                      *)
(***************************************************************************)
\* largest number of pieces of the text of a book file
MaxBookPieces == 3

\* bold delimiter, speaker name with its colon, single star, whitespace, a
\* CJK ideograph and an English word
BookPieces ==
    {<<"*","*">>, <<"a",":">>, <<"*">>, <<" ">>, <<"\n">>, <<"U+4E2D">>, <<"B">>}

RECURSIVE BookTexts(_)
\* the texts of at most n pieces
BookTexts(n) ==
    IF n = 0 THEN {<< >>}
    ELSE BookTexts(n - 1) \cup {t \o p : t \in BookTexts(n - 1), p \in BookPieces}

RECURSIVE Repeat(_, _)
\* s * n
Repeat(s, n) == IF n = 0 THEN << >> ELSE s \o Repeat(s, n - 1)

\* a chunk on which the three methods count 0, 1 and 2 words, and one on
\* which they count 0, 1 and 1
Chunk012 == <<"a","_","b"," ">>

Chunk011 == <<"a","1">>

\* a dialogue line, the same with a translation, and texts on which the
\* totals of the three methods lie exactly 50 and 51 apart
BookCases ==
    {<<"*","*","S","a","l","l","y",":","*","*"," ","H","e","l","l","o">>,
     <<"*","*","S","a","l","l","y",":","*","*"," ","U+4E2D","U+3002","H","i","!">>,
     Repeat(Chunk012, NormalTotalDiff \div 2),
     Repeat(Chunk012, NormalTotalDiff \div 2) \o Chunk011}

\* the text of the two files that are not varied
StockText == <<"I","t","'","s"," ","a"," ","c","a","t">>

\* the name of the uploaded file of each type
FileName == [f \in Range(FileTypes) |-> f \o "-book.txt"]

InitBook ==
    /\ \E f \in Range(FileTypes), t \in BookTexts(MaxBookPieces) \cup BookCases :
          uploaded_files =
              [g \in Range(FileTypes) |->
                  [name |-> FileName[g], content |-> IF g = f THEN t ELSE StockText]]
    /\ verification_on \in BOOLEAN
    /\ individual_results = None
    /\ summary = None
    /\ text = None
    /\ parts = None
    /\ results = None
    /\ report = None
    /\ quick = None
    /\ expanded = None
    /\ wordlist = None
    /\ pc = "uploaded"

\* process_book_files(uploaded_files, enable_verification)
ProcessBookFiles ==
    /\ pc = "uploaded"
    /\ individual_results' =
          [f \in Range(FileTypes) |->
              analyze_book_file(uploaded_files[f].content, f, uploaded_files[f].name,
                                verification_on)]
    /\ summary' = generate_summary(individual_results')
    /\ pc' = "processed"
    /\ UNCHANGED <<textVars, uploaded_files, verification_on>>

NextBook == ProcessBookFiles

SpecBook == InitBook /\ [][NextBook]_vars

(***************************************************************************)
(* Properties of the selection policy and of the classifier (SpecPolicy).  *)
(***************************************************************************)
Verified == pc = "verified" /\ report # ZeroDivisionError

\* the totals and unique counts of the three method results of the report
TotalOf(i) == report.results[i].total_words

UniqueOf(i) == report.results[i].unique_words

Largest(a, b, c) == IF a >= b /\ a >= c THEN a ELSE IF b >= c THEN b ELSE c

Smallest(a, b, c) == IF a <= b /\ a <= c THEN a ELSE IF b <= c THEN b ELSE c

MaxTotal == Largest(TotalOf(1), TotalOf(2), TotalOf(3))

TotalSpread == MaxTotal - Smallest(TotalOf(1), TotalOf(2), TotalOf(3))

UniqueSpread ==
    Largest(UniqueOf(1), UniqueOf(2), UniqueOf(3)) - Smallest(UniqueOf(1), UniqueOf(2), UniqueOf(3))

AllAgree ==
    /\ TotalOf(1) = TotalOf(2) /\ TotalOf(2) = TotalOf(3)
    /\ UniqueOf(1) = UniqueOf(2) /\ UniqueOf(2) = UniqueOf(3)

\* Strategy A's total is more than 10% below the largest total
AMoreThanTenthBelow == 10 * (MaxTotal - TotalOf(1)) > MaxTotal

\* final_stats carries the total, unique count and frequency table of method result i
FinalIs(i) ==
    /\ report.final_stats.selected_method = report.results[i].method
    /\ report.final_stats.total_words = report.results[i].total_words
    /\ report.final_stats.unique_words = report.results[i].unique_words
    /\ report.final_stats.word_freq = report.results[i].word_freq

\* C1: when the results are not consistent and Strategy A's total is more than
\* 10% below the largest total, the method with the largest total is selected,
\* B before C when both have it, and final_stats carries that method's figures.
C1_OverrideSelectsMax ==
    (Verified /\ ~AllAgree /\ AMoreThanTenthBelow)
        => FinalIs(IF TotalOf(2) = MaxTotal THEN 2 ELSE 3)

\* the override with B and C tied for the largest total
C1_Witness ==
    /\ Verified /\ ~AllAgree /\ AMoreThanTenthBelow
    /\ TotalOf(2) = MaxTotal /\ TotalOf(3) = MaxTotal
    /\ UniqueOf(2) # UniqueOf(3)
    /\ report.final_stats.selected_method = "method2"

C3_ConsistentIffAllEqual ==
    Verified =>
        /\ report.comparison.consistent <=> AllAgree
        /\ report.comparison.total_words.difference = TotalSpread
        /\ report.comparison.unique_words.difference = UniqueSpread
        /\ report.comparison.consistent <=>
              (/\ report.comparison.total_words.difference = 0
               /\ report.comparison.unique_words.difference = 0)
        /\ report.verified = report.comparison.consistent

\* equal totals, different unique counts: not consistent
C3_Witness ==
    /\ Verified
    /\ TotalOf(1) = TotalOf(2) /\ TotalOf(2) = TotalOf(3) /\ TotalOf(1) > 0
    /\ UniqueSpread > 0
    /\ ~report.comparison.consistent
    /\ ~report.verified

\* the message the table of the classifier gives for the spreads of the report
TableMessage ==
    IF AllAgree THEN RecConsistent
    ELSE IF TotalSpread <= 2 /\ UniqueSpread <= 2 THEN RecMinor
    ELSE IF TotalSpread <= 10 /\ UniqueSpread <= 5 THEN RecSmall
    ELSE IF TotalSpread <= 50 THEN RecNormal
    ELSE RecWarn

\* C4: the recommendation is the first matching row of the classifier's table,
\* and it is the warning exactly when the total spread exceeds 50.
C4_RecommendationTable ==
    Verified =>
        /\ report.recommendation = TableMessage
        /\ report.recommendation = RecWarn <=> TotalSpread > 50

\* a total spread of exactly 50 with a unique spread above 5 still passes
C4_Witness ==
    /\ Verified
    /\ TotalSpread = 50 /\ UniqueSpread > 5
    /\ report.recommendation = RecNormal

(***************************************************************************)
(* Properties of the tokenizers, the expander and the aggregation (Spec).  *)
(***************************************************************************)
\* verify_text has returned a report for the text
HasReport == pc \in {"verified", "counted"} /\ report # None /\ report # ZeroDivisionError

\* analyze_text has returned a quick count of the text
HasQuick == pc = "counted"

\* the text holds no alphabetic character
NoLetters == \A i \in 1..Len(text) : ~IsAlpha(text[i])

\* C5: for the empty string and for any text without an alphabetic character
\* verify_text returns normally, with zero totals, an empty frequency table,
\* consistent results, Strategy A selected and the fully-consistent pass.
C5_NoLettersGivesZero ==
    (pc = "verified" /\ NoLetters) =>
        /\ report # ZeroDivisionError
        /\ report.final_stats.total_words = 0
        /\ report.final_stats.unique_words = 0
        /\ DOMAIN report.final_stats.word_freq = {}
        /\ report.comparison.consistent
        /\ report.final_stats.selected_method = "method1"
        /\ report.recommendation = RecConsistent

\* a verified text of digits, punctuation and underscores only
C5_Witness ==
    /\ pc = "verified" /\ NoLetters
    /\ \E i \in 1..Len(text) : IsDigit(text[i])
    /\ \E i \in 1..Len(text) : text[i] = "_"
    /\ report.final_stats.total_words = 0

\* the words of what stands before or after a framed word
FrameWords(f) == IF \E i \in 1..Len(f) : f[i] = "a" THEN << <<"a">> >> ELSE << >>

ItsACat == <<"I","t","'","s"," ","a"," ","c","a","t">>

IllGoLetsGo ==
    <<"I","'","l","l"," ","g","o","."," ","L","e","t","'","s"," ","g","o","!"," ",
      "T","h","e","r","e","'","s"," ","a"," ","b","o","o","k",".">>

\* C6: a table key standing as a whole word, in any letter case, gives exactly
\* its expansion words, lowercase and in table order (one word for ma'am,
\* three for o'clock, two otherwise); keys ending in 's are expanded, not
\* stripped; "It's a cat" gives it, is, a, cat.
C6_KeysExpandBeforePossessive ==
    /\ (pc = "expanded" /\ parts.kind = "key") =>
          LET entry == STANDARD_CONTRACTIONS[parts.entry]
          IN  /\ wordlist = FrameWords(parts.pre) \o entry.expansion \o FrameWords(parts.post)
              /\ Len(entry.expansion) =
                    IF entry.key = <<"m","a","'","a","m">> THEN 1
                    ELSE IF entry.key = <<"o","'","c","l","o","c","k">> THEN 3
                    ELSE 2
    /\ (pc = "expanded" /\ text = ItsACat) =>
          wordlist = << <<"i","t">>, <<"i","s">>, <<"a">>, <<"c","a","t">> >>
    /\ (pc = "expanded" /\ text = IllGoLetsGo) =>
          /\ wordlist = << <<"i">>, <<"w","i","l","l">>, <<"g","o">>, <<"l","e","t">>, <<"u","s">>,
                          <<"g","o">>, <<"t","h","e","r","e">>, <<"i","s">>, <<"a">>,
                          <<"b","o","o","k">> >>
          /\ Cardinality(Range(wordlist)) = 9

\* "a Let's a": a capitalized key that ends in 's, expanded between two words
C6_Witness ==
    /\ pc = "expanded" /\ parts.kind = "key"
    /\ parts.core = <<"L","e","t","'","s">>
    /\ parts.pre = <<"a"," ">> /\ parts.post = <<" ","a">>
    /\ wordlist = << <<"a">>, <<"l","e","t">>, <<"u","s">>, <<"a">> >>

\* a word is a key of the table, in any letter case
IsTableKey(w) ==
    \E n \in 1..Len(STANDARD_CONTRACTIONS) : STANDARD_CONTRACTIONS[n].key = Lower(w)

\* the word before 's of a framed possessive
BaseWord == SubSeq(parts.core, 1, Len(parts.core) - 2)

\* w's is rewritten to w, case kept, and counted as the one token lowercase w
StrippedToBase ==
    /\ expanded = parts.pre \o BaseWord \o parts.post
    /\ wordlist = FrameWords(parts.pre) \o <<Lower(BaseWord)>> \o FrameWords(parts.post)

UnclesStory == <<"U","n","c","l","e","'","s"," ","s","t","o","r","y">>

DontWorrySally ==
    <<"D","o","n","'","t"," ","w","o","r","r","y",","," ","S","a","l","l","y","'","s"," ",
      "c","o","a","t"," ","i","s"," ","h","e","r","e",".">>

\* the two examples of the possessive rule
PossessiveExamples ==
    /\ (pc = "expanded" /\ text = UnclesStory) =>
          wordlist = << <<"u","n","c","l","e">>, <<"s","t","o","r","y">> >>
    /\ (pc = "expanded" /\ text = DontWorrySally) =>
          /\ wordlist = << <<"d","o">>, <<"n","o","t">>, <<"w","o","r","r","y">>,
                          <<"s","a","l","l","y">>, <<"c","o","a","t">>, <<"i","s">>,
                          <<"h","e","r","e">> >>
          /\ Cardinality(Range(wordlist)) = 7

\* C7 as stated: for any word w of letters such that w's is no table key, the
\* whole word w's is rewritten to w, case kept, and Strategy A counts the one
\* token lowercase w.
C7_PossessiveOneToken ==
    /\ (pc = "expanded" /\ parts.kind = "possessive" /\ ~IsTableKey(parts.core))
          => StrippedToBase
    /\ PossessiveExamples

\* C7 amended: the same for any word w of letters such that neither w's nor w
\* itself is a table key (the letters-only key is "cannot").
C7_PossessiveUnlessKey ==
    /\ (/\ pc = "expanded" /\ parts.kind = "possessive"
         /\ ~IsTableKey(parts.core) /\ ~IsTableKey(BaseWord))
          => StrippedToBase
    /\ PossessiveExamples

\* "a Uncle's a": the possessive stripped between two words, its capital kept
C7_Witness ==
    /\ pc = "expanded" /\ parts.kind = "possessive"
    /\ BaseWord = <<"U","n","c","l","e">>
    /\ parts.pre = <<"a"," ">> /\ parts.post = <<" ","a">>
    /\ expanded = <<"a"," ","U","n","c","l","e"," ","a">>
    /\ wordlist = << <<"a">>, <<"u","n","c","l","e">>, <<"a">> >>

\* quickCount and Strategy C return the same totals and the same frequency table
QuickEqualsMethod3 ==
    /\ quick.total_words = report.results[3].total_words
    /\ quick.unique_words = report.results[3].unique_words
    /\ quick.word_freq = report.results[3].word_freq

\* C8 as stated: quickCount is equivalent to Strategy C for every input text.
C8_QuickEqualsMethod3 ==
    (HasQuick /\ HasReport) => QuickEqualsMethod3

\* a word character that is no English letter: a digit, an underscore, another letter
OtherWordChar(c) == IsWordChar(c) /\ ~IsAsciiLetter(c)

\* no English letter of the text stands next to a digit, an underscore or another letter
LettersStandAlone ==
    \A i \in 1..(Len(text) - 1) :
        /\ ~(IsAsciiLetter(text[i]) /\ OtherWordChar(text[i + 1]))
        /\ ~(OtherWordChar(text[i]) /\ IsAsciiLetter(text[i + 1]))

\* C8 amended: quickCount is equivalent to Strategy C for every text in which
\* no English letter stands next to a digit, an underscore or a non-English letter.
C8_QuickEqualsMethod3Alone ==
    (HasQuick /\ HasReport /\ LettersStandAlone) => QuickEqualsMethod3

\* a quick count of a text with a word, an uppercase letter and a free-standing digit
C8_Witness ==
    /\ HasQuick /\ HasReport /\ LettersStandAlone
    /\ \E i \in 1..Len(text) : IsDigit(text[i])
    /\ \E i \in 1..Len(text) : text[i] \in AsciiUpper
    /\ quick.total_words >= 1
    /\ QuickEqualsMethod3

\* every key of a frequency table is a non-empty string of the letters a-z
WellFormedKeys(freq) ==
    \A w \in DOMAIN freq : w # << >> /\ \A i \in 1..Len(w) : w[i] \in AsciiLower

\* C9: every key of every frequency table of verify_text (the three
\* strategies and the final counts) and of quickCount is a non-empty string
\* of lowercase English letters, for every input text.
C9_KeysAreLowercaseEnglish ==
    /\ HasReport =>
          /\ \A i \in 1..3 : WellFormedKeys(report.results[i].word_freq)
          /\ WellFormedKeys(report.final_stats.word_freq)
    /\ HasQuick => WellFormedKeys(quick.word_freq)

RECURSIVE SumValues(_)
\* the sum of the values of a frequency table
SumValues(freq) ==
    IF DOMAIN freq = {} THEN 0
    ELSE LET w == CHOOSE k \in DOMAIN freq : TRUE
         IN  freq[w] + SumValues([k \in DOMAIN freq \ {w} |-> freq[k]])

\* total = sum of the frequencies, unique = number of keys, every frequency at least 1
Aggregated(r) ==
    /\ r.total_words = SumValues(r.word_freq)
    /\ r.unique_words = Cardinality(DOMAIN r.word_freq)
    /\ \A w \in DOMAIN r.word_freq : r.word_freq[w] >= 1
    /\ r.unique_words <= r.total_words

\* C10: in the result of each strategy, in final_stats and in the quick count,
\* total_words is the length of the token sequence and the sum of the
\* frequencies, unique_words is the number of keys and every frequency is at
\* least 1.
C10_AggregationInvariant ==
    /\ HasReport =>
          /\ \A i \in 1..3 :
                /\ Aggregated(report.results[i])
                /\ report.results[i].total_words = Len(report.results[i].word_list)
          /\ Aggregated(report.final_stats)
    /\ HasQuick => Aggregated(quick)

\* a verified text in which Strategy A counts one word twice
C10_Witness ==
    /\ HasReport
    /\ report.results[1].total_words = 2
    /\ report.results[1].unique_words = 1
    /\ report.final_stats.total_words = 2

\* the list is in strictly ascending code-point order
Ascending(list) == \A i, j \in 1..Len(list) : i < j => StrLess(list[i], list[j])

\* the list holds the keys of the table, each once, in ascending order
SortedKeysOf(list, freq, unique) ==
    /\ Ascending(list)
    /\ Range(list) = DOMAIN freq
    /\ Len(list) = unique

\* C11: the unique word list of final_stats and of the quick count is the keys
\* of the returned frequency table in ascending lexicographic order, without
\* duplicates and of length unique_words, and the table of final_stats is the
\* table of the method result named by selected_method.
C11_UniqueListIsSortedKeys ==
    /\ HasReport =>
          /\ SortedKeysOf(report.final_stats.unique_word_list,
                          report.final_stats.word_freq,
                          report.final_stats.unique_words)
          /\ \E i \in 1..3 :
                /\ report.results[i].method = report.final_stats.selected_method
                /\ report.results[i].word_freq = report.final_stats.word_freq
                /\ \A j \in 1..3 : report.results[j].method = report.results[i].method => j = i
    /\ HasQuick => SortedKeysOf(quick.unique_word_list, quick.word_freq, quick.unique_words)

\* a text verified and quick-counted whose final table is not Strategy A's and
\* holds two keys
C11_Witness ==
    /\ HasReport /\ HasQuick
    /\ report.final_stats.selected_method # "method1"
    /\ Len(report.final_stats.unique_word_list) >= 2
    /\ Len(quick.unique_word_list) >= 1

\* the n-th smallest number of a set of numbers
Nth(S, n) == CHOOSE x \in S : Cardinality({y \in S : y < x}) = n - 1

RECURSIVE Concat(_)
\* the tokens of a list written one after the other
Concat(tokens) == IF tokens = << >> THEN << >> ELSE Head(tokens) \o Concat(Tail(tokens))

\* the positions where a whitespace-delimited chunk of the text starts
ChunkStarts ==
    {i \in 1..Len(text) : text[i] \notin Whitespace /\ (i = 1 \/ text[i - 1] \in Whitespace)}

\* the chunk that starts at position i
ChunkFrom(i) ==
    SubSeq(text, i, Min({j \in i..Len(text) : j = Len(text) \/ text[j + 1] \in Whitespace}))

\* the starts of the chunks that hold an alphabetic character
LetterChunks ==
    {i \in ChunkStarts : \E k \in 1..Len(ChunkFrom(i)) : IsAlpha(ChunkFrom(i)[k])}

\* per chunk with a letter, in text order, the lowercase of its alphabetic characters
ChunkLetters ==
    [n \in 1..Cardinality(LetterChunks) |->
        Lower(SelectSeq(ChunkFrom(Nth(LetterChunks, n)), IsAlpha))]

Dont == <<"d","o","n","'","t">>

\* C12: Strategy B returns one token per whitespace-delimited chunk holding an
\* alphabetic character, the lowercase of the chunk's alphabetic characters,
\* and none for a chunk without letters; no contraction is expanded ("don't"
\* gives "dont") and its total is the number of chunks holding a letter.
C12_MethodBOneTokenPerChunk ==
    HasReport =>
        /\ report.results[2].word_list = ChunkLetters
        /\ report.results[2].total_words = Cardinality(LetterChunks)
        /\ text = Dont => report.results[2].word_list = << <<"d","o","n","t">> >>

\* a verified text with a chunk without letters and a chunk whose letters are
\* separated by an apostrophe
C12_Witness ==
    /\ HasReport
    /\ LetterChunks # ChunkStarts
    /\ \E i \in LetterChunks : \E k \in 2..(Len(ChunkFrom(i)) - 1) :
          /\ ChunkFrom(i)[k] = "'"
          /\ IsAlpha(ChunkFrom(i)[k - 1]) /\ IsAlpha(ChunkFrom(i)[k + 1])

\* the positions of the English letters of the text
LetterPositions == {i \in 1..Len(text) : IsAsciiLetter(text[i])}

\* the letter positions that open a token: the letter before, if any, is
\* separated from it by something other than digits
RunStarts ==
    {p \in LetterPositions :
        ~\E q \in LetterPositions :
            q < p /\ \A k \in (q + 1)..(p - 1) : IsDigit(text[k])}

\* the lowercase letters from the n-th run start up to the next one
RunLetters ==
    [n \in 1..Cardinality(RunStarts) |->
        LET from == Nth(RunStarts, n)
            upto == IF n < Cardinality(RunStarts) THEN Nth(RunStarts, n + 1) - 1 ELSE Len(text)
        IN  Lower(SelectSeq(SubSeq(text, from, upto), IsAsciiLetter))]

\* C13: Strategy C returns the lowercase maximal runs of English letters of the
\* text with the digit runs deleted: letters separated by digits only are one
\* token ("a1b" gives "ab"), letters separated by anything else are separate
\* tokens ("don't" gives "don", "t"), no contraction is expanded, and the
\* tokens written one after the other are the lowercase letters of the text.
C13_MethodCJoinsOverDigits ==
    HasReport =>
        /\ report.results[3].word_list = RunLetters
        /\ Concat(report.results[3].word_list) = Lower(SelectSeq(text, IsAsciiLetter))
        /\ text = <<"a","1","B">> => report.results[3].word_list = << <<"a","b">> >>
        /\ text = Dont => report.results[3].word_list = << <<"d","o","n">>, <<"t">> >>

\* a verified text in which a digit joins two letters into one token
C13_Witness ==
    /\ HasReport
    /\ \E k \in 2..(Len(text) - 1) :
          IsDigit(text[k]) /\ IsAsciiLetter(text[k - 1]) /\ IsAsciiLetter(text[k + 1])
    /\ Len(report.results[3].word_list) = 1

\* position i of the text is its start, its end, or holds no word character
NoWordCharAt(i) == i < 1 \/ i > Len(text) \/ ~IsWordChar(text[i])

\* key n stands in the text from position i on, in any letter case
KeyAt(n, i) ==
    LET key == STANDARD_CONTRACTIONS[n].key
    IN  /\ i + Len(key) - 1 <= Len(text)
        /\ Lower(SubSeq(text, i, i + Len(key) - 1)) = key

\* some table key stands in the text as a whole word
HasWholeWordKey ==
    \E n \in 1..Len(STANDARD_CONTRACTIONS) : \E i \in 1..Len(text) :
        /\ KeyAt(n, i)
        /\ NoWordCharAt(i - 1)
        /\ NoWordCharAt(i + Len(STANDARD_CONTRACTIONS[n].key))

\* some whole word of the text is English letters followed by 's
HasPossessivePattern ==
    \E i \in 1..Len(text) : \E j \in i..Len(text) :
        /\ \A k \in i..j : IsAsciiLetter(text[k])
        /\ NoWordCharAt(i - 1)
        /\ j + 2 <= Len(text) /\ text[j + 1] = "'" /\ text[j + 2] = "s"
        /\ NoWordCharAt(j + 3)

\* the text is a table key with a word character directly before or after it
GluedKey == pc = "expanded" /\ parts.kind = "glued"

\* the glued key replaced where it stands by the expansion of its entry
RewrittenByEntry ==
    parts.pre \o Join(STANDARD_CONTRACTIONS[parts.entry].expansion) \o parts.post

\* text without a whole-word key and without a letters-plus-'s word comes back unchanged
PlainTextUnchanged ==
    (pc = "expanded" /\ ~HasWholeWordKey /\ ~HasPossessivePattern) => expanded = text

\* C14 as stated: every occurrence of a table key that is directly preceded or
\* followed by a letter, a digit or an underscore is left unchanged by
\* expand_contractions, and text without a whole-word key and without a
\* letters-plus-'s pattern is returned unchanged.
C14_GluedKeysUnchanged ==
    /\ GluedKey => expanded = text
    /\ PlainTextUnchanged

\* C14 as amended: the entry of a key never rewrites an occurrence of the key
\* that a word character touches; such an occurrence changes only when the
\* word around it is letters-plus-'s, which loses its 's, or is itself a
\* table key; text without a whole-word key and without a letters-plus-'s
\* pattern is returned unchanged.
C14_KeysMatchWholeWords ==
    /\ GluedKey =>
          /\ expanded # RewrittenByEntry
          /\ expanded # text =>
                \/ HasWholeWordKey
                \/ /\ HasPossessivePattern
                   /\ expanded = SubSeq(text, 1, Len(text) - 2)
    /\ PlainTextUnchanged

\* a key behind a digit, left as it is
C14_Witness ==
    /\ GluedKey
    /\ parts.pre = <<"1">>
    /\ ~HasWholeWordKey /\ ~HasPossessivePattern
    /\ expanded = text

\* the text is made of English letters and whitespace only
LettersAndSpaces == \A i \in 1..Len(text) : IsAsciiLetter(text[i]) \/ text[i] \in Whitespace

\* the text holds ASCII characters only
AsciiText ==
    \A i \in 1..Len(text) :
        text[i] \notin OtherLower \cup OtherUpper \cup CjkLetters \cup CjkPunctuation

\* C20: on a text of ASCII letters and whitespace in which no whole word is a
\* table key the three strategies return the same token sequence, the
\* comparison is consistent, Strategy A is selected and the recommendation is
\* the fully-consistent pass; on any ASCII text Strategy B's total is at most
\* Strategy C's.
C20_PlainTextAllAgree ==
    HasReport =>
        /\ (LettersAndSpaces /\ ~HasWholeWordKey) =>
              /\ report.results[1].word_list = report.results[2].word_list
              /\ report.results[2].word_list = report.results[3].word_list
              /\ report.comparison.consistent
              /\ report.final_stats.selected_method = "method1"
              /\ report.recommendation = RecConsistent
        /\ AsciiText => report.results[2].total_words <= report.results[3].total_words

\* a verified text of two words of letters, one with a capital, and a space
C20_Witness ==
    /\ HasReport
    /\ LettersAndSpaces /\ ~HasWholeWordKey
    /\ \E i \in 1..Len(text) : text[i] \in AsciiUpper
    /\ report.results[1].total_words = 2
    /\ report.results[3].total_words = 2

(***************************************************************************)
(* Further properties of the selection policy (SpecPolicy).                *)
(***************************************************************************)
\* C15: final_stats takes the highest value: its total_words is the largest
\* of the three totals, for every input.
C15_FinalIsMaxTotal ==
    Verified => report.final_stats.total_words = MaxTotal

\* the method result that final_stats names
Selected == CHOOSE i \in 1..3 : report.results[i].method = report.final_stats.selected_method

\* C18: the final total is at least Strategy A's total; when the selected
\* method is not Strategy A, the selected total is the largest of the three
\* totals, is strictly above Strategy A's total, and the results are not
\* consistent.
C18_FinalAtLeastA ==
    Verified =>
        /\ report.final_stats.total_words >= TotalOf(1)
        /\ report.final_stats.selected_method # "method1" =>
              /\ report.final_stats.total_words = TotalOf(Selected)
              /\ TotalOf(Selected) = MaxTotal
              /\ TotalOf(Selected) > TotalOf(1)
              /\ ~report.comparison.consistent
              /\ ~report.verified

\* Strategy C selected, with Strategy B between Strategy A and it
C18_Witness ==
    /\ Verified
    /\ report.final_stats.selected_method = "method3"
    /\ TotalOf(1) < TotalOf(2) /\ TotalOf(2) < TotalOf(3)
    /\ report.final_stats.total_words = TotalOf(3)

(***************************************************************************)
(* Properties of the processing of book files (SpecBook).                  *)
(***************************************************************************)
\* process_book_files has returned
Processed == pc = "processed"

\* what analyze_text returns on the cleaned text of the file of type f
Analysed(f) == analyze_text(individual_results[f].cleaned_text, verification_on)

\* the fields that only the multiplication adds
MultiplierFields == {"original_total_words", "multiplier"}

\* C16: analyze_book_file multiplies the total by 3 for the original text and
\* only for it: total_words is 3 times the analysed total,
\* original_total_words is the analysed total and multiplier is 3, every
\* other field of the analysis is unchanged; for the bilingual text and the
\* dialogue total_words is the analysed total and neither field is added.
C16_OriginalTimesThree ==
    Processed =>
        \A f \in Range(FileTypes) :
            LET stats == individual_results[f]
                analysed == Analysed(f)
            IN  /\ \A k \in DOMAIN analysed \ {"total_words"} :
                      k \in DOMAIN stats /\ stats[k] = analysed[k]
                /\ analysed.total_words = SumValues(stats.word_freq)
                /\ IF f = TypeOriginal
                   THEN /\ stats.total_words = 3 * analysed.total_words
                        /\ stats.original_total_words = analysed.total_words
                        /\ stats.multiplier = 3
                   ELSE /\ stats.total_words = analysed.total_words
                        /\ DOMAIN stats \cap MultiplierFields = {}

\* a verified book whose original text counts four words, reported as twelve
C16_Witness ==
    /\ Processed /\ verification_on
    /\ individual_results[TypeOriginal].original_total_words = 4
    /\ individual_results[TypeOriginal].total_words = 12
    /\ individual_results[TypeOriginal].unique_words = 4
    /\ individual_results[TypeBilingual].total_words = SumValues(individual_results[TypeBilingual].word_freq)

\* the text holds neither two stars in a row nor a CJK character
NoBoldNoCjk(s) ==
    /\ \A i \in 1..(Len(s) - 1) : ~(s[i] = "*" /\ s[i + 1] = "*")
    /\ \A i \in 1..Len(s) : ~IsCjk(s[i])

\* ' '.join(s.split()): the chunks of the text with one space between them
Normalised(s) == Join(Split(s))

SallyHello == <<"*","*","S","a","l","l","y",":","*","*"," ","H","e","l","l","o">>

\* the text opens with a speaker marker: two stars, English letters, a colon
OpensWithMarker(s) ==
    /\ Len(s) >= 4 /\ s[1] = "*" /\ s[2] = "*"
    /\ \E e \in 3..(Len(s) - 1) : s[e + 1] = ":" /\ \A k \in 3..e : IsAsciiLetter(s[k])

\* the text behind the first colon
AfterColon(s) == SubSeq(s, Min({i \in 1..Len(s) : s[i] = ":"}) + 1, Len(s))

\* C17: for the dialogue file the preprocessed text holds no "**" and no CJK
\* character, a speaker marker is removed with the name in it, so the name is
\* not counted ("**Sally:** Hello" becomes "Hello"), the markers going before
\* the remaining bold delimiters; for the original text the preprocessed text
\* is the text with its whitespace normalised.
C17_DialoguePreprocessing ==
    Processed =>
        LET dialogue == uploaded_files[TypeDialogue].content
            stats    == individual_results[TypeDialogue]
        IN  /\ NoBoldNoCjk(stats.cleaned_text)
            /\ OpensWithMarker(dialogue) =>
                  stats.cleaned_text = preprocess_text(AfterColon(dialogue), TypeDialogue)
            /\ dialogue = SallyHello =>
                  /\ stats.cleaned_text = <<"H","e","l","l","o">>
                  /\ stats.total_words = 1
                  /\ stats.unique_word_list = << <<"h","e","l","l","o">> >>
            /\ individual_results[TypeOriginal].cleaned_text
                  = Normalised(uploaded_files[TypeOriginal].content)

\* the dialogue line "**Sally:** Hello" processed, next to an original text
\* that keeps its stars
C17_Witness ==
    /\ Processed
    /\ uploaded_files[TypeDialogue].content = SallyHello
    /\ individual_results[TypeDialogue].cleaned_text = <<"H","e","l","l","o">>
    /\ individual_results[TypeOriginal].cleaned_text = StockText

\* the spread of the totals of the three methods on the file of type f
Spread(f) ==
    LET values == individual_results[f].verification_comparison.total_words.values
    IN  Max(Range(values)) - Min(Range(values))

\* C19: the short status is the 'needs checking' warning exactly when the
\* recommendation is the warning, which is exactly when the totals lie more
\* than 50 apart, and 'verification passed' otherwise; all_verified of the
\* summary of a verified run is true exactly when no file has a spread of the
\* totals above 50.
C19_StatusAgreesWithRecommendation ==
    (Processed /\ verification_on) =>
        /\ \A f \in Range(FileTypes) :
              LET stats == individual_results[f]
              IN  /\ stats.verification_status \in {SummaryPass, SummaryCheck}
                  /\ stats.verification_status = SummaryCheck <=> stats.verification_detail = RecWarn
                  /\ stats.verification_status = SummaryCheck <=> Spread(f) > 50
        /\ summary.all_verified <=> \A f \in Range(FileTypes) : Spread(f) <= 50

\* a verified book with a file whose totals lie 51 apart
C19_Witness ==
    /\ Processed /\ verification_on
    /\ \E f \in Range(FileTypes) :
          /\ Spread(f) = 51
          /\ individual_results[f].verification_status = SummaryCheck
    /\ ~summary.all_verified

====
